---------------------------- MODULE Spec2Model ----------------------------
(***************************************************************************)
(* Model of the prompt-improvement service: the rule engine                *)
(* enhance_prompt_structure in its two variants (minimal: main.py and      *)
(* server.py; extended: auto_improve_main.py), the instruction loader      *)
(* read_improvement_prompt, and the three delivery wrappers (two tool-call *)
(* handlers and one HTTP handler).                                         *)
(*                                                                         *)
(* Python str values are TLA+ strings; Len, \o and SubSeq act on them      *)
(* character by character, so substring containment, strip(), split() and  *)
(* lower() are computed as the interpreter computes them.                  *)
(***************************************************************************)
EXTENDS Naturals, Sequences, FiniteSets

(***************************************************************************)
(* Bounds of the model.                                                    *)
(***************************************************************************)
\* Largest number of filler words appended to a prompt head.
MaxFiller == 10

(***************************************************************************)
(* str primitives.                                                         *)
(***************************************************************************)
CharAt(s, i) == SubSeq(s, i, i)

\* The characters str.strip() and str.split() treat as whitespace.
Whitespace == {" ", "\t", "\n", "\r", "\f"}

UpperLetters == "ABCDEFGHIJKLMNOPQRSTUVWXYZ"
LowerLetters == "abcdefghijklmnopqrstuvwxyz"

\* The lower-case form of each upper-case letter.
LowerOf ==
    [c \in {CharAt(UpperLetters, i) : i \in 1..Len(UpperLetters)} |->
        CharAt(LowerLetters, CHOOSE i \in 1..Len(UpperLetters) : CharAt(UpperLetters, i) = c)]

LowerChar(c) == IF c \in DOMAIN LowerOf THEN LowerOf[c] ELSE c

\* str.lower(), character by character over s[i..j]; the range is halved
\* so that the depth of evaluation stays logarithmic in the length.
RECURSIVE LowerRange(_, _, _)
LowerRange(s, i, j) ==
    IF i > j THEN ""
    ELSE IF i = j THEN LowerChar(CharAt(s, i))
    ELSE LET mid == (i + j) \div 2
         IN  LowerRange(s, i, mid) \o LowerRange(s, mid + 1, j)

Lower(s) == LowerRange(s, 1, Len(s))

\* word in text  (unanchored substring containment)
Contains(text, word) ==
    \E i \in 1..(Len(text) + 1 - Len(word)) : SubSeq(text, i, i + Len(word) - 1) = word

\* any(word in text for word in words)
AnyIn(words, text) == \E w \in words : Contains(text, w)

\* str.strip()
Strip(s) ==
    LET solid == {i \in 1..Len(s) : CharAt(s, i) \notin Whitespace}
    IN  IF solid = {} THEN ""
        ELSE SubSeq(s, CHOOSE i \in solid : \A j \in solid : i <= j,
                       CHOOSE i \in solid : \A j \in solid : j <= i)

\* len(s.split()): the number of maximal runs of non-whitespace characters
WordCount(s) ==
    Cardinality({i \in 1..Len(s) :
                    /\ CharAt(s, i) \notin Whitespace
                    /\ (i = 1 \/ CharAt(s, i - 1) \in Whitespace)})

\* Prefix and suffix tests, used to state the properties.
StartsWith(s, p) == Len(p) <= Len(s) /\ SubSeq(s, 1, Len(p)) = p
EndsWith(s, p) == Len(p) <= Len(s) /\ SubSeq(s, Len(s) + 1 - Len(p), Len(s)) = p

(***************************************************************************)
(* The three programs.  Each carries its own copy of the engine: main.py   *)
(* and server.py the minimal rule set, auto_improve_main.py the extended   *)
(* one.                                                                    *)
(***************************************************************************)
Extended(m) == m = "auto_improve_main"

\* Keyword lists of the role definition step.
DeveloperWords == {"code", "program", "develop"}
WriterWords == {"write", "document", "explain"}
DesignerWords == {"design", "ui", "ux"}
AnalystWords == {"data", "analysis", "statistics"}

DeveloperPrefix == "Act as an expert software developer. "
WriterPrefix == "Act as a technical writer. "
DesignerPrefix == "Act as a UX/UI designer. "
AnalystPrefix == "Act as a data analyst. "

\* Variant of CodeWords that forgets "function".
CodeWordsNoFunction(m) ==
    IF Extended(m) THEN {"code", "script", "program"} ELSE {"code", "script"}

\* Keyword lists of the format-requirement steps.
CodeWords(m) ==
    IF Extended(m) THEN {"code", "function", "script", "program"}
    ELSE {"code", "function", "script"}

ExplainWords == {"explain", "describe", "what is", "how does"}

\* The word-count threshold of the specificity step.
SpecificityThreshold == 10

SpecificitySentence(m) ==
    IF Extended(m) THEN ". Please provide detailed steps, examples, and explanations."
    ELSE ". Please provide detailed steps and examples."

ContextLabel == "\n\nContext: "

CodeChecklist(m) ==
    IF Extended(m)
    THEN "\n\nPlease include:\n- Clear comments explaining the code\n- Error handling where appropriate\n- Example usage\n- Brief explanation of the approach"
    ELSE "\n\nPlease include:\n- Clear comments explaining the code\n- Error handling where appropriate\n- Example usage"

ExplainChecklist ==
    "\n\nPlease structure your response with:\n- Clear introduction\n- Step-by-step explanation\n- Practical examples\n- Summary of key points"

ClosingSentence(m) ==
    IF Extended(m) THEN "\n\nEnsure the response is practical, actionable, and easy to understand."
    ELSE "\n\nEnsure the response is practical and actionable."

(***************************************************************************)
(* enhance_prompt_structure, one operator per step; each takes the working *)
(* buffer `enhanced` and returns the new one.                              *)
(***************************************************************************)
\* Variant of RolePrefix with the designer branch ahead of the writer branch.
RolePrefixDesignerFirst(m, prompt) ==
    LET p == Lower(prompt)
    IN  IF AnyIn(DeveloperWords, p) THEN DeveloperPrefix
        ELSE IF Extended(m) /\ AnyIn(DesignerWords, p) THEN DesignerPrefix
        ELSE IF AnyIn(WriterWords, p) THEN WriterPrefix
        ELSE IF Extended(m) /\ AnyIn(AnalystWords, p) THEN AnalystPrefix
        ELSE ""

\* if / elif chain on prompt.lower(): the first matching category wins.
RolePrefix(m, prompt) ==
    LET p == Lower(prompt)
    IN  IF AnyIn(DeveloperWords, p) THEN DeveloperPrefix
        ELSE IF AnyIn(WriterWords, p) THEN WriterPrefix
        ELSE IF Extended(m) /\ AnyIn(DesignerWords, p) THEN DesignerPrefix
        ELSE IF Extended(m) /\ AnyIn(AnalystWords, p) THEN AnalystPrefix
        ELSE ""

AddRole(m, prompt, enhanced) == RolePrefix(m, prompt) \o enhanced

\* Variant of AddSpecificity with `<=` for `<`.
AddSpecificityInclusive(m, enhanced) ==
    IF WordCount(enhanced) <= SpecificityThreshold
    THEN enhanced \o SpecificitySentence(m)
    ELSE enhanced

AddSpecificity(m, enhanced) ==
    IF WordCount(enhanced) < SpecificityThreshold
    THEN enhanced \o SpecificitySentence(m)
    ELSE enhanced

\* Variant of AddContext without the `if context:` test.
AddContextAlways(context, enhanced) == enhanced \o ContextLabel \o context

\* Variant of AddContext that strips the context first.
AddContextStripped(context, enhanced) ==
    IF context # "" THEN enhanced \o ContextLabel \o Strip(context) ELSE enhanced

\* `if context:` is the truth value of a str: non-empty.
AddContext(context, enhanced) ==
    IF context # "" THEN enhanced \o ContextLabel \o context ELSE enhanced

AddCodeFormat(m, enhanced) ==
    IF AnyIn(CodeWords(m), Lower(enhanced))
    THEN enhanced \o CodeChecklist(m)
    ELSE enhanced

\* Present in the extended engine only; tested on the buffer as it stands
\* after the code-format step.
AddExplainFormat(m, enhanced) ==
    IF Extended(m) /\ AnyIn(ExplainWords, Lower(enhanced))
    THEN enhanced \o ExplainChecklist
    ELSE enhanced

\* Variant of AddConstraint with the minimal sentence in every program.
AddConstraintMinimalOnly(m, enhanced) ==
    enhanced \o "\n\nEnsure the response is practical and actionable."

AddConstraint(m, enhanced) == enhanced \o ClosingSentence(m)

\* The buffer after each step of the pipeline.
AfterRole(m, prompt) == AddRole(m, prompt, Strip(prompt))
AfterSpecificity(m, prompt) == AddSpecificity(m, AfterRole(m, prompt))
AfterContext(m, prompt, context) == AddContext(context, AfterSpecificity(m, prompt))
AfterCodeFormat(m, prompt, context) == AddCodeFormat(m, AfterContext(m, prompt, context))
AfterExplainFormat(m, prompt, context) ==
    AddExplainFormat(m, AfterCodeFormat(m, prompt, context))

\* `improvements` is accepted and never read.
enhance_prompt_structure(m, prompt, context, improvements) ==
    AddConstraint(m, AfterExplainFormat(m, prompt, context))

(***************************************************************************)
(* improve_prompt_locally, after the instructions were loaded: the list of *)
(* suggested improvements, then the engine.                                *)
(***************************************************************************)
VagueLimit == 5

Improvements(user_prompt, context) ==
    (IF WordCount(user_prompt) < VagueLimit
     THEN <<"Make the request more specific and detailed">> ELSE <<>>)
    \o
    (IF context = "" /\ ~AnyIn({"python", "javascript", "web", "app", "code"}, Lower(user_prompt))
     THEN <<"Consider adding context about the technology or domain">> ELSE <<>>)
    \o
    (IF ~AnyIn({"create", "build", "write", "generate", "help", "explain", "show"}, Lower(user_prompt))
     THEN <<"Specify what action you want performed">> ELSE <<>>)

improve_prompt_locally(m, user_prompt, context) ==
    enhance_prompt_structure(m, user_prompt, context, Improvements(user_prompt, context))

(***************************************************************************)
(* Inputs.  Prompts are built from keyword-bearing words (in pairs, so     *)
(* that several role categories can match at once), from a head followed   *)
(* by up to MaxFiller filler words (so that the word count crosses the     *)
(* specificity threshold with and without a role prefix), and from the     *)
(* documented examples.                                                    *)
(***************************************************************************)
Words ==
    {"code", "Program", "develop", "write", "document", "Explain", "design",
     "UI", "linux", "data", "analysis", "statistics", "function", "script",
     "Describe", "what is", "How does", "fix", "Context:"}

\* One word of each keyword category, to follow any of Words.
SecondWords == {"", "CODE", "rewrite", "ux", "Data", "functions", "describe", "more"}

PairPrompts == {a \o " " \o b : a \in Words, b \in SecondWords}

Heads == {"", "code", "Write", "UI", "data", "Describe"}
Separators == {" ", "\n\t"}

RECURSIVE Repeat(_, _)
Repeat(s, n) == IF n = 0 THEN "" ELSE s \o Repeat(s, n - 1)

FillerPrompts ==
    {h \o Repeat(sep \o "it", n) : h \in Heads, sep \in Separators, n \in 0..MaxFiller}

ExamplePrompts ==
    {"write a function", "Explain how garbage collection works", "fix my script",
     "see Context", " ", "\n"}

Prompts == PairPrompts \cup FillerPrompts \cup ExamplePrompts

Contexts == {"", "Java backend", " padded \n", "what is code"}

\* A tool-call `arguments` dict or a JSON body: a function from the keys
\* given to their str values.
Dict(keys, first, second) ==
    [k \in keys |-> IF k \in {"user_prompt", "user_message"} THEN first ELSE second]

ImproveArguments ==
    {Dict({"user_prompt", "context"}, p, c) : p \in Prompts, c \in Contexts}
    \cup {Dict({"user_prompt"}, p, "") : p \in Prompts}
    \cup {Dict({"context"}, "", c) : c \in Contexts}
    \cup {Dict({}, "", "")}

AutoArguments == {Dict({"user_message"}, p, "") : p \in Prompts} \cup {Dict({}, "", "")}

\* arguments.get(key, "")
Get(arguments, key) == IF key \in DOMAIN arguments THEN arguments[key] ELSE ""

(***************************************************************************)
(* State.                                                                  *)
(***************************************************************************)
VARIABLES
    file,            \* improvement_prompt.md beside the programs
    pc,              \* "idle", "loading" (between exists() and the read), "done"
    module,          \* the program serving the request in hand
    tool,            \* the tool name, or the HTTP route
    arguments,       \* the request's arguments
    found,           \* what prompt_file.exists() returned
    loaderInvoked,   \* read_improvement_prompt was called for this request
    loaded,          \* what read_improvement_prompt returned or raised
    engineInvoked,   \* enhance_prompt_structure was called for this request
    improved,        \* what improve_prompt_locally returned
    response         \* what the handler returned or raised

vars == <<file, pc, module, tool, arguments, found, loaderInvoked, loaded,
          engineInvoked, improved, response>>

FileText == "# Guidelines\nBe specific.\n"
DefaultInstructions == "Improve the following prompt to be clearer and more effective:"

Absent == [kind |-> "absent", text |-> ""]
Present == [kind |-> "present", text |-> FileText]
\* Exists, and reading it fails (permissions, undecodable bytes).
Unreadable == [kind |-> "unreadable", text |-> ""]

NoResult == [kind |-> "none", text |-> ""]
Returned(text) == [kind |-> "returned", text |-> text]
Raised(exc, message) == [kind |-> exc, text |-> message]

NoResponse == [kind |-> "none", status |-> 0, text |-> ""]
\* [types.TextContent(type="text", text=...)]
TextContent(text) == [kind |-> "text", status |-> 0, text |-> text]
\* An exception leaving the handler.
Escapes(exc, message) == [kind |-> exc, status |-> 0, text |-> message]
\* PromptResponse(improved_prompt=...)
PromptResponse(text) == [kind |-> "http", status |-> 200, text |-> text]
HTTPException(status_code, detail) == [kind |-> "http", status |-> status_code, text |-> detail]

Idle ==
    /\ pc = "idle"
    /\ module = "none"
    /\ tool = ""
    /\ arguments = Dict({}, "", "")
    /\ found = FALSE
    /\ loaderInvoked = FALSE
    /\ loaded = NoResult
    /\ engineInvoked = FALSE
    /\ improved = ""
    /\ response = NoResponse

Init == file \in {Absent, Present, Unreadable} /\ Idle
(***************************************************************************)
(* The handlers.  A request is handled in two steps, split where the       *)
(* loader touches the file system a second time: the first step runs from  *)
(* the handler's entry to prompt_file.exists(), the second from the read   *)
(* (or the default) to the handler's return.  Other processes may change   *)
(* the file between the two.  The programs share nothing but the file, so  *)
(* one request in hand at a time shows every behaviour of each.            *)
(***************************************************************************)
ToolNames == {"improve_prompt", "auto_improve_all_prompts", "summarize"}

\* The arguments a call is tried with; an unknown tool's are never read.
ArgumentsFor(m, name) ==
    IF name = "improve_prompt" THEN ImproveArguments
    ELSE IF name = "auto_improve_all_prompts" /\ m = "auto_improve_main" THEN AutoArguments
    ELSE {Dict({}, "", "")}

\* The handler returns (or raises) without loading or improving anything.
ReturnEarly(r) ==
    /\ pc' = "done"
    /\ response' = r
    /\ UNCHANGED <<found, loaderInvoked, loaded, engineInvoked, improved>>

\* improve_prompt_locally calls read_improvement_prompt, which asks whether
\* the file exists.
EnterLoader ==
    /\ pc' = "loading"
    /\ loaderInvoked' = TRUE
    /\ found' = (file.kind # "absent")
    /\ UNCHANGED <<loaded, engineInvoked, improved, response>>

main_handle_call_tool(name, args) ==
    /\ pc = "idle"
    /\ module' = "main" /\ tool' = name /\ arguments' = args
    /\ IF name # "improve_prompt"
       THEN ReturnEarly(Escapes("ValueError", "Unknown tool: " \o name))
       ELSE IF Get(args, "user_prompt") = ""
       THEN ReturnEarly(TextContent("Error: No prompt provided to improve."))
       ELSE EnterLoader
    /\ UNCHANGED file

\* Variant of auto_handle_call_tool without the `if not user_prompt` test.
auto_handle_call_tool_unchecked(name, args) ==
    /\ pc = "idle"
    /\ module' = "auto_improve_main" /\ tool' = name /\ arguments' = args
    /\ IF name \in {"improve_prompt", "auto_improve_all_prompts"}
       THEN EnterLoader
       ELSE ReturnEarly(Escapes("ValueError", "Unknown tool: " \o name))
    /\ UNCHANGED file

auto_handle_call_tool(name, args) ==
    /\ pc = "idle"
    /\ module' = "auto_improve_main" /\ tool' = name /\ arguments' = args
    /\ IF name = "improve_prompt"
       THEN IF Get(args, "user_prompt") = ""
            THEN ReturnEarly(TextContent("Error: No prompt provided to improve."))
            ELSE EnterLoader
       ELSE IF name = "auto_improve_all_prompts"
       THEN IF Get(args, "user_message") = ""
            THEN ReturnEarly(TextContent("Error: No message provided to improve."))
            ELSE EnterLoader
       ELSE ReturnEarly(Escapes("ValueError", "Unknown tool: " \o name))
    /\ UNCHANGED file

\* PromptRequest declares user_prompt without a default: a body lacking it
\* is refused by the request model (422) and improve_prompt is not run.
server_improve_prompt(body) ==
    /\ pc = "idle"
    /\ module' = "server" /\ tool' = "POST /improve-prompt" /\ arguments' = body
    /\ IF "user_prompt" \notin DOMAIN body
       THEN ReturnEarly(HTTPException(422, "user_prompt: field required"))
       ELSE IF Get(body, "user_prompt") = ""
       THEN ReturnEarly(HTTPException(400, "No prompt provided to improve"))
       ELSE EnterLoader
    /\ UNCHANGED file

\* The arguments improve_prompt_locally is called with.
RequestPrompt(t, args) ==
    IF t = "auto_improve_all_prompts" THEN Get(args, "user_message") ELSE Get(args, "user_prompt")

RequestContext(t, args) ==
    IF t = "auto_improve_all_prompts" THEN "" ELSE Get(args, "context")

\* The handler's return after improve_prompt_locally returned `text`.
OnSuccess(m, t, args, text) ==
    IF m = "server" THEN PromptResponse(text)
    ELSE IF t = "auto_improve_all_prompts"
    THEN TextContent("IMPROVED PROMPT:\n\n" \o text \o "\n\n---\n\nORIGINAL: "
                     \o Get(args, "user_message"))
    ELSE TextContent(text)

\* Variant of OnException without the except clause: the exception leaves
\* the handler.
OnExceptionUncaught(m, t, exc, message) == Escapes(exc, message)

\* except Exception as e: the handler's answer, with str(e) as `message`.
OnException(m, t, exc, message) ==
    IF m = "server" THEN HTTPException(500, "Error improving prompt: " \o message)
    ELSE IF t = "auto_improve_all_prompts"
    THEN TextContent("Error improving message: " \o message)
    ELSE TextContent("Error improving prompt: " \o message)

\* prompt_file.read_text(encoding="utf-8") on the file as it is now.
ReadText(f) ==
    IF f.kind = "present" THEN Returned(f.text)
    ELSE IF f.kind = "absent"
    THEN Raised("FileNotFoundError",
                "[Errno 2] No such file or directory: 'improvement_prompt.md'")
    ELSE Raised("PermissionError", "[Errno 13] Permission denied: 'improvement_prompt.md'")

\* From the loader's result to the handler's return: the rest of
\* improve_prompt_locally when the loader returned, the except clause when
\* it raised.
Finish(result) ==
    /\ pc' = "done"
    /\ loaded' = result
    /\ IF result.kind = "returned"
       THEN /\ engineInvoked' = TRUE
            /\ improved' = improve_prompt_locally(module, RequestPrompt(tool, arguments),
                                                  RequestContext(tool, arguments))
            /\ response' = OnSuccess(module, tool, arguments, improved')
       ELSE /\ response' = OnException(module, tool, result.kind, result.text)
            /\ UNCHANGED <<engineInvoked, improved>>
    /\ UNCHANGED <<file, module, tool, arguments, found, loaderInvoked>>

\* exists() was true: read the file.
read_improvement_prompt_read ==
    /\ pc = "loading" /\ found
    /\ Finish(ReadText(file))

\* exists() was false: the built-in default.
read_improvement_prompt_default ==
    /\ pc = "loading" /\ ~found
    /\ Finish(Returned(DefaultInstructions))

\* The response leaves; the program waits for the next request.
Deliver ==
    /\ pc = "done"
    /\ pc' = "idle"
    /\ module' = "none"
    /\ tool' = ""
    /\ arguments' = Dict({}, "", "")
    /\ found' = FALSE
    /\ loaderInvoked' = FALSE
    /\ loaded' = NoResult
    /\ engineInvoked' = FALSE
    /\ improved' = ""
    /\ response' = NoResponse
    /\ UNCHANGED file

(***************************************************************************)
(* Other processes acting on improvement_prompt.md.                        *)
(***************************************************************************)
FsCreate ==
    /\ file = Absent
    /\ file' = Present
    /\ UNCHANGED <<pc, module, tool, arguments, found, loaderInvoked, loaded,
                   engineInvoked, improved, response>>

FsDelete ==
    /\ file # Absent
    /\ file' = Absent
    /\ UNCHANGED <<pc, module, tool, arguments, found, loaderInvoked, loaded,
                   engineInvoked, improved, response>>

FsChmod ==
    /\ file # Absent
    /\ file' = IF file = Present THEN Unreadable ELSE Present
    /\ UNCHANGED <<pc, module, tool, arguments, found, loaderInvoked, loaded,
                   engineInvoked, improved, response>>

Next ==
    \/ \E name \in ToolNames : \E args \in ArgumentsFor("main", name) :
          main_handle_call_tool(name, args)
    \/ \E name \in ToolNames : \E args \in ArgumentsFor("auto_improve_main", name) :
          auto_handle_call_tool(name, args)
    \/ \E body \in ImproveArguments : server_improve_prompt(body)
    \/ read_improvement_prompt_read
    \/ read_improvement_prompt_default
    \/ Deliver
    \/ FsCreate
    \/ FsDelete
    \/ FsChmod

Spec == Init /\ [][Next]_vars
(***************************************************************************)
(* Properties.  In a "done" state `improved` is the engine's return value  *)
(* for the prompt and context the request carried.                         *)
(***************************************************************************)
EngineReturned == pc = "done" /\ engineInvoked
Prompt == RequestPrompt(tool, arguments)
Context == RequestContext(tool, arguments)

\* The request is an improve_prompt call (tool or HTTP).
IsImprovePrompt == tool \in {"improve_prompt", "POST /improve-prompt"}

\* C1: in both variants the engine's output ends with the variant's fixed
\* closing sentence, whichever of the earlier steps fired.
C1_EndsWithClosing ==
    EngineReturned =>
        EndsWith(improved,
                 IF module = "auto_improve_main"
                 THEN "\n\nEnsure the response is practical, actionable, and easy to understand."
                 ELSE "\n\nEnsure the response is practical and actionable.")

\* C1 witness: an extended-engine output on which the role, padding, context
\* and both checklist steps all fired.
C1_AllStepsFired ==
    /\ EngineReturned /\ module = "auto_improve_main"
    /\ StartsWith(improved, "Act as an expert software developer. ")
    /\ Contains(improved, ". Please provide detailed steps, examples, and explanations.")
    /\ Contains(improved, "\n\nContext: Java backend")
    /\ Contains(improved, "\n\nPlease include:")
    /\ Contains(improved, "\n\nPlease structure your response with:")

\* C2 as stated: with an empty context the output holds no "Context:"
\* anywhere, the part copied from the prompt included.
C2_NoContextSubstring ==
    (EngineReturned /\ Context = "") => ~Contains(improved, "Context:")

\* C2 as amended: with an empty context the engine adds no "Context:" of its
\* own; the output holds "Context:" exactly when the prompt does.
C2_ContextOnlyFromPrompt ==
    (EngineReturned /\ Context = "") =>
        (Contains(improved, "Context:") <=> Contains(Prompt, "Context:"))

\* C2 witness: an empty context and a prompt that itself says "Context:".
C2_PromptSaysContext ==
    /\ EngineReturned /\ Context = ""
    /\ Contains(Prompt, "Context:") /\ Contains(improved, "Context:")

\* What may follow the context block: the checklists that fired, then the
\* closing sentence.
Tails(m) ==
    {ClosingSentence(m), CodeChecklist(m) \o ClosingSentence(m)}
    \cup (IF Extended(m)
          THEN {ExplainChecklist \o ClosingSentence(m),
                CodeChecklist(m) \o ExplainChecklist \o ClosingSentence(m)}
          ELSE {})

\* C3: with a non-empty context the output is the buffer as it stood after
\* the padding step, then two newlines, "Context: " and the context
\* unchanged, then the checklists (if any) and the closing sentence.
C3_ContextBlockPlaced ==
    (EngineReturned /\ Context # "") =>
        \E tail \in Tails(module) :
            improved = AfterSpecificity(module, Prompt) \o "\n\nContext: " \o Context \o tail

\* C3 witness: a context with surrounding whitespace, after padding and
\* before a code checklist.
C3_PaddedContextBetween ==
    /\ EngineReturned /\ Context = " padded \n"
    /\ Contains(improved, "examples.\n\nContext:  padded \n\n\nPlease include:")

\* C4: the extended engine prepends the role sentence of the first category,
\* in the order developer, writer, designer, analyst, that the lower-cased
\* prompt matches, and nothing when none matches.
C4_RoleByPriority ==
    (EngineReturned /\ module = "auto_improve_main") =>
        LET p == Lower(Prompt)
            developer == AnyIn({"code", "program", "develop"}, p)
            writer == AnyIn({"write", "document", "explain"}, p)
            designer == AnyIn({"design", "ui", "ux"}, p)
            analyst == AnyIn({"data", "analysis", "statistics"}, p)
            role == IF developer THEN "Act as an expert software developer. "
                    ELSE IF writer THEN "Act as a technical writer. "
                    ELSE IF designer THEN "Act as a UX/UI designer. "
                    ELSE IF analyst THEN "Act as a data analyst. "
                    ELSE ""
        IN  /\ StartsWith(improved, role \o Strip(Prompt))
            /\ role = "" => StartsWith(improved, Strip(Prompt))

\* C4 witness: a prompt matching the writer, designer and analyst categories
\* gets the writer sentence only.
C4_SeveralCategories ==
    /\ EngineReturned /\ module = "auto_improve_main"
    /\ Prompt \in {"design rewrite", "data rewrite"}
    /\ StartsWith(improved, "Act as a technical writer. d")
\* C5 as stated: for prompt "write a function" and an empty context the
\* output begins with the developer sentence followed by the prompt.
C5_DeveloperExample ==
    (EngineReturned /\ Prompt = "write a function" /\ Context = "") =>
        StartsWith(improved, "Act as an expert software developer. write a function")

\* C5 as amended: for prompt "write a function" and an empty context the
\* output is the writer sentence and the prompt, the padding sentence, the
\* code checklist, in the extended engine also the explanation checklist
\* (the code checklist says "explaining"), and the closing sentence.
C5_WriterExample ==
    (EngineReturned /\ Prompt = "write a function" /\ Context = "") =>
        improved =
            IF module = "auto_improve_main"
            THEN "Act as a technical writer. write a function"
                 \o ". Please provide detailed steps, examples, and explanations."
                 \o "\n\nPlease include:\n- Clear comments explaining the code\n- Error handling where appropriate\n- Example usage\n- Brief explanation of the approach"
                 \o "\n\nPlease structure your response with:\n- Clear introduction\n- Step-by-step explanation\n- Practical examples\n- Summary of key points"
                 \o "\n\nEnsure the response is practical, actionable, and easy to understand."
            ELSE "Act as a technical writer. write a function"
                 \o ". Please provide detailed steps and examples."
                 \o "\n\nPlease include:\n- Clear comments explaining the code\n- Error handling where appropriate\n- Example usage"
                 \o "\n\nEnsure the response is practical and actionable."

\* C5 witness: the engine returned for the example's input.
C5_ExampleServed ==
    /\ EngineReturned /\ Prompt = "write a function" /\ Context = ""
    /\ module = "main" /\ response = TextContent(improved)

\* C6 as stated: an improve_prompt request with an empty or absent
\* user_prompt is answered with the fixed error text (HTTP: status 400) and
\* neither the loader nor the engine runs; every other request reaches the
\* engine.
C6_RejectedElseEngine ==
    (pc = "done" /\ IsImprovePrompt) =>
        IF Get(arguments, "user_prompt") = ""
        THEN /\ ~loaderInvoked /\ ~engineInvoked
             /\ IF module = "server" THEN response.status = 400
                ELSE response = TextContent("Error: No prompt provided to improve.")
        ELSE engineInvoked

\* C6 as amended: an empty user_prompt (in the tool handlers also an absent
\* one) is answered with the fixed error text (HTTP: status 400), an HTTP
\* body without user_prompt with status 422, and in none of these does the
\* loader or the engine run; every non-empty user_prompt reaches the loader,
\* and the engine runs exactly when the loader returns.
C6_RejectedElseLoader ==
    (pc = "done" /\ IsImprovePrompt) =>
        IF Get(arguments, "user_prompt") = ""
        THEN /\ ~loaderInvoked /\ ~engineInvoked
             /\ IF module # "server"
                THEN response = TextContent("Error: No prompt provided to improve.")
                ELSE IF "user_prompt" \in DOMAIN arguments
                THEN response.kind = "http" /\ response.status = 400
                ELSE response.kind = "http" /\ response.status = 422
        ELSE /\ loaderInvoked
             /\ engineInvoked <=> loaded.kind = "returned"

\* C6 witness: a tool call carrying a context and no user_prompt was
\* answered with the error text.
C6_AbsentPromptRejected ==
    /\ pc = "done" /\ tool = "improve_prompt"
    /\ DOMAIN arguments = {"context"} /\ arguments["context"] = "Java backend"
    /\ response.text = "Error: No prompt provided to improve."

\* C7 as stated: read_improvement_prompt never raises because the file is
\* missing, also when the file is created or deleted during the call.
C7_NeverRaisesForMissing == loaded.kind # "FileNotFoundError"

\* C8: for an improve_prompt call with a non-empty user_prompt, an exception
\* raised while improving never leaves the handler: the tool handlers return
\* the text "Error improving prompt: <message>", the HTTP handler answers 500
\* with that text.
C8_ExceptionsBecomeResponses ==
    (pc = "done" /\ IsImprovePrompt /\ Get(arguments, "user_prompt") # "") =>
        /\ response.kind \in {"text", "http"}
        /\ loaded.kind # "returned" =>
              /\ response.text = "Error improving prompt: " \o loaded.text
              /\ response.status = IF module = "server" THEN 500 ELSE 0

\* C8 witness: the read failed under the HTTP handler and the answer was a
\* 500 carrying the message.
C8_ReadFailedAnswered ==
    /\ pc = "done" /\ module = "server"
    /\ loaded.kind = "PermissionError"
    /\ response = HTTPException(500,
          "Error improving prompt: [Errno 13] Permission denied: 'improvement_prompt.md'")

\* C9: the padding sentence follows the buffer left by role injection exactly
\* when that buffer has fewer than 10 whitespace-separated tokens; the
\* extended engine's output for "Explain how garbage collection works" with
\* context "Java backend" (10 tokens after the writer sentence) has no
\* padding.
C9_PaddingBelowTen ==
    EngineReturned =>
        LET buffer == AfterRole(module, Prompt)
            sentence == IF module = "auto_improve_main"
                        THEN ". Please provide detailed steps, examples, and explanations."
                        ELSE ". Please provide detailed steps and examples."
        IN  /\ StartsWith(improved, buffer \o sentence) <=> WordCount(buffer) < 10
            /\ WordCount(buffer) >= 10 => StartsWith(improved, buffer \o "\n\n")
            /\ (/\ module = "auto_improve_main"
                /\ Prompt = "Explain how garbage collection works"
                /\ Context = "Java backend")
               => improved =
                    "Act as a technical writer. Explain how garbage collection works"
                    \o "\n\nContext: Java backend"
                    \o "\n\nPlease structure your response with:\n- Clear introduction\n- Step-by-step explanation\n- Practical examples\n- Summary of key points"
                    \o "\n\nEnsure the response is practical, actionable, and easy to understand."

\* C9 witness: a buffer of exactly 10 tokens went unpadded.
C9_ExactlyTenTokens ==
    /\ EngineReturned /\ module = "auto_improve_main"
    /\ Prompt = "Explain how garbage collection works" /\ Context = "Java backend"
    /\ WordCount(AfterRole(module, Prompt)) = 10
    /\ ~Contains(improved, ". Please provide detailed steps")

\* C10 as stated: the extended engine appends the explanation checklist
\* exactly when the text accumulated before any checklist contains one of
\* "explain", "describe", "what is", "how does"; the code checklist does not
\* bring it about.
C10_ExplainIndependent ==
    (EngineReturned /\ module = "auto_improve_main") =>
        (Contains(improved, "\n\nPlease structure your response with:")
         <=> AnyIn({"explain", "describe", "what is", "how does"},
                   Lower(AfterContext(module, Prompt, Context))))

=============================================================================
